---- MODULE Spec2Model ----
(***************************************************************************)
(* Model of the selection and extraction engine of scalpel-ts:             *)
(*   tokens -> annotateTags -> fromTagInfo -> TagSpec -> select -> chroots *)
(* and of the zipper navigation of SerialScraper (stepNext / stepBack).    *)
(*                                                                         *)
(* Indices into the token vector are 0-based, as in the source; the token  *)
(* at index i of a sequence s is s[i + 1].                                 *)
(* An Option is a sequence of length at most one: None is << >> and        *)
(* Some(x) is << x >>.                                                     *)
(***************************************************************************)
EXTENDS Integers, Sequences, FiniteSets, TLC

VARIABLES
  pc,        \* position of the scrape driver
  tokens,    \* the token stream produced by the tokenizer
  tags,      \* the annotated token vector (TagInfo)
  spec,      \* the TagSpec built from the tokens
  selector,  \* the selector of the last selection
  selected,  \* the specs returned by the last select
  scraped,   \* the result of the last chroots
  zipper,    \* the SpecZipper of the serial scraper
  result     \* the result of the last serial step

vars == << pc, tokens, tags, spec, selector, selected, scraped, zipper, result >>

(***************************************************************************)
(* Bounds of the model                                                     *)
(***************************************************************************)
MaxLen == 5          \* longest token stream of the selection pipeline
MaxSerialLen == 4    \* longest token stream under the serial scraper
MaxCombLen == 3
MaxInSerialLen == 4
MaxScrapeLen == 4
MaxSelectorLen == 2
MaxDepth == 1
MaxZipperLen == 3
MaxMove == 2

Names == { "a", "b" }

(***************************************************************************)
(* Option                                                                  *)
(***************************************************************************)
None == << >>
Some(x) == << x >>
isSome(o) == o # << >>

(***************************************************************************)
(* Html tokens (Internal/Html/Tokenizer).  Every TagOpen carries an "id"   *)
(* attribute and every Text its own text, both derived from the token's    *)
(* index, so that a token of the input can be told from every other.       *)
(***************************************************************************)
TagOpen(name, attributes) ==
  [type |-> "TagOpen", name |-> name, attributes |-> attributes]
TagClose(name) == [type |-> "TagClose", name |-> name]
Text(text) == [type |-> "Text", text |-> text]
Comment(comment) == [type |-> "Comment", comment |-> comment]

Attribute(key, value) == [key |-> key, value |-> value]

Kinds == { << "TagOpen", n >> : n \in Names } \cup
         { << "TagClose", n >> : n \in Names } \cup
         { << "Text", "" >>, << "Comment", "" >> }

\* The token the tokenizer emits at index i for a token of kind k.
MakeToken(k, i) ==
  CASE k[1] = "TagOpen" -> TagOpen(k[2], << Attribute("id", i) >>)
    [] k[1] = "TagClose" -> TagClose(k[2])
    [] k[1] = "Text" -> Text(i)
    [] OTHER -> Comment(i)

(***************************************************************************)
(* TagInfo: the annotator (Internal/Tag/TagInfo.ts)                        *)
(***************************************************************************)
TagInfo(token, closeOffset) == [token |-> token, closeOffset |-> closeOffset]
IndexedToken(index, token) == [index |-> index, token |-> token]
IndexedTagInfo(index, info) == [index |-> index, info |-> info]

\* fp-ts ReadonlyArray head / tail: Options.
RA_head(as) == IF as = << >> THEN None ELSE Some(Head(as))
RA_tail(as) == IF as = << >> THEN None ELSE Some(Tail(as))

RECURSIVE RA_flatten(_)
RA_flatten(xss) ==
  IF xss = << >> THEN << >> ELSE Head(xss) \o RA_flatten(Tail(xss))

\* The empty TagMap; a TagMap is a function from tag names to stacks.
EmptyMap == << >>

appendToken(x, stack) ==
  IF stack = None THEN Some(<< x >>) ELSE Some(<< x >> \o stack[1])

popToken(stack) ==
  IF stack = None THEN None ELSE RA_tail(stack[1])

\* An endomorphism of Option<stack> handed to alterMap: appendToken(x) or
\* popToken.
AppendToken(x) == [endo |-> "appendToken", x |-> x]
PopToken == [endo |-> "popToken"]

applyEndo(f, stack) ==
  IF f.endo = "appendToken" THEN appendToken(f.x, stack) ELSE popToken(stack)

alterMap(key, f, map) ==
  IF key \notin DOMAIN map
  THEN LET r == applyEndo(f, None)
       IN IF r = None THEN map ELSE (key :> r[1]) @@ map
  ELSE LET r == applyEndo(f, Some(map[key]))
       IN IF r = None THEN map ELSE [map EXCEPT ![key] = r[1]]

\* Variant: the offset taken from the opener to the closer the wrong way round.
calculateOffset_swapped(start, end) ==
  IndexedTagInfo(end.index, TagInfo(end.token, Some(end.index - start.index)))

\* The first parameter is the closing tag and the second the opening tag it
\* closes (the source names them start and end).
calculateOffset(start, end) ==
  IndexedTagInfo(end.index, TagInfo(end.token, Some(start.index - end.index)))

\* One step of the State monad: the emitted infos and the next TagMap.
toIndexedTagInfo(index, token, map) ==
  CASE token.type = "TagOpen" ->
         [value |-> << >>,
          state |-> alterMap(token.name,
                             AppendToken(IndexedToken(index, token)),
                             map)]
    [] token.type = "TagClose" ->
         LET looked == IF token.name \in DOMAIN map
                       THEN RA_head(map[token.name]) ELSE None
             opener == IF looked = None THEN << >>
                       ELSE << calculateOffset(IndexedToken(index, token), looked[1]) >>
         IN [value |-> << IndexedTagInfo(index, TagInfo(token, None)) >> \o opener,
             state |-> alterMap(token.name, PopToken, map)]
    [] OTHER ->
         [value |-> << IndexedTagInfo(index, TagInfo(token, None)) >>,
          state |-> map]

\* traverseStateWithIndex / sequenceState: the steps run left to right, the
\* TagMap threaded through them.
RECURSIVE sequenceState(_, _, _, _)
sequenceState(ts, i, map, values) ==
  IF i >= Len(ts) THEN [value |-> values, state |-> map]
  ELSE LET r == toIndexedTagInfo(i, ts[i + 1], map)
       IN sequenceState(ts, i + 1, r.state, Append(values, r.value))

\* The stacks of the map, in the order of RM.values: the keys are visited
\* from the stack with the smallest first index.
RECURSIVE mapValues(_, _)
mapValues(map, keys) ==
  IF keys = {} THEN << >>
  ELSE LET first(k) == IF map[k] = << >> THEN -1 ELSE map[k][1].index
           k == CHOOSE x \in keys : \A y \in keys : first(x) <= first(y)
       IN << map[k] >> \o mapValues(map, keys \ { k })

toRemaining(processed, map) ==
  LET stacks == RA_flatten(mapValues(map, DOMAIN map))
      remaining == [j \in 1..Len(stacks) |->
                      IndexedTagInfo(stacks[j].index, TagInfo(stacks[j].token, None))]
  IN processed \o remaining

\* RA.sort(ordIndexedTagInfo): a stable sort on the index.
RECURSIVE insertSorted(_, _)
insertSorted(x, sorted) ==
  IF sorted = << >> THEN << x >>
  ELSE IF x.index < Head(sorted).index THEN << x >> \o sorted
  ELSE << Head(sorted) >> \o insertSorted(x, Tail(sorted))

\* Variant: the emitted infos are not sorted back into stream order.
sortByIndex_unsorted(xs) == xs

RECURSIVE sortByIndex(_)
sortByIndex(xs) ==
  IF xs = << >> THEN << >>
  ELSE insertSorted(xs[Len(xs)], sortByIndex(SubSeq(xs, 1, Len(xs) - 1)))

annotateTags(ts) ==
  LET run == sequenceState(ts, 0, EmptyMap, << >>)
      all == toRemaining(RA_flatten(run.value), run.state)
      sorted == sortByIndex(all)
  IN [j \in 1..Len(sorted) |-> sorted[j].info]

(***************************************************************************)
(* The annotator of Internal/tagInfo.ts, over a Ref of the TagMap          *)
(***************************************************************************)
effectCalculateOffset(start, end) ==
  IndexedTagInfo(start.index, TagInfo(start.token, Some(end.index - start.index)))

\* One Ref.modify: the emitted infos and the next TagMap.  An opening tag is
\* appended to the tokens of its name; a closing tag takes tokens[0] and
\* leaves tokens.slice(1).
effectToIndexedTagInfo(index, token, map) ==
  CASE token.type = "TagOpen" ->
         [value |-> << >>,
          state |-> IF token.name \notin DOMAIN map
                    THEN (token.name :> << IndexedToken(index, token) >>) @@ map
                    ELSE [map EXCEPT ![token.name] =
                            Append(@, IndexedToken(index, token))]]
    [] token.type = "TagClose" ->
         LET closingTag == IndexedTagInfo(index, TagInfo(token, None))
         IN IF token.name \notin DOMAIN map
            THEN [value |-> << closingTag >>, state |-> map]
            ELSE LET toks == map[token.name]
                     rest == IF toks = << >> THEN << >> ELSE Tail(toks)
                     popped == [map EXCEPT ![token.name] = rest]
                 IN IF toks = << >>
                    THEN [value |-> << closingTag >>, state |-> popped]
                    ELSE [value |-> << effectCalculateOffset(
                                         toks[1], IndexedToken(index, token)),
                                       closingTag >>,
                          state |-> popped]
    [] OTHER ->
         [value |-> << IndexedTagInfo(index, TagInfo(token, None)) >>,
          state |-> map]

\* Effect.forEach(tokens, toIndexedTagInfo(ref)): the steps run left to right
\* on the one Ref.
RECURSIVE effectForEach(_, _, _, _)
effectForEach(ts, i, map, values) ==
  IF i >= Len(ts) THEN [value |-> values, state |-> map]
  ELSE LET r == effectToIndexedTagInfo(i, ts[i + 1], map)
       IN effectForEach(ts, i + 1, r.state, Append(values, r.value))

\* getRemainingTagInfo, appended to the processed infos and flattened.
getRemainingTagInfo(processed, map) ==
  LET left == RA_flatten(mapValues(map, DOMAIN map))
      remaining == [j \in 1..Len(left) |->
                      IndexedTagInfo(left[j].index, TagInfo(left[j].token, None))]
  IN RA_flatten(processed) \o remaining

effectAnnotateTags(ts) ==
  LET run == effectForEach(ts, 0, EmptyMap, << >>)
      sorted == sortByIndex(getRemainingTagInfo(run.value, run.state))
  IN [j \in 1..Len(sorted) |-> sorted[j].info]

(***************************************************************************)
(* TagForest: the forest builder (Internal/Tag/TagForest.ts)               *)
(***************************************************************************)
TagSpan(start, end) == [start |-> start, end |-> end]
Tree(value, forest) == [value |-> value, forest |-> forest]

shouldSkip(token) == token.type \in { "TagClose", "Comment" }

RECURSIVE malformed(_, _, _)
\* Variant: the comparison of the hoisting test inverted.
malformed_inverted(end, preBad, remaining) ==
  IF remaining = << >> THEN [ok |-> << >>, bad |-> preBad]
  ELSE LET n == Head(remaining)
           r == malformed(end, preBad, Tail(remaining))
       IN IF n.value.end < end
          THEN [ok |-> r.ok, bad |-> << n >> \o r.bad]
          ELSE [ok |-> << n >> \o r.ok, bad |-> r.bad]

malformed(end, preBad, remaining) ==
  IF remaining = << >> THEN [ok |-> << >>, bad |-> preBad]
  ELSE LET n == Head(remaining)
           r == malformed(end, preBad, Tail(remaining))
       IN IF end < n.value.end
          THEN [ok |-> r.ok, bad |-> << n >> \o r.bad]
          ELSE [ok |-> << n >> \o r.ok, bad |-> r.bad]

RECURSIVE fixTree(_)
fixTree(forest) ==
  IF forest = << >> THEN << >>
  ELSE LET f == Head(forest)
           r == malformed(f.value.end, fixTree(Tail(forest)), fixTree(f.forest))
       IN << Tree(TagSpan(f.value.start, f.value.end), r.ok) >> \o r.bad

RECURSIVE forestWithin(_, _, _)
forestWithin(tokenInfo, start, end) ==
  IF end <= start \/ start >= Len(tokenInfo) THEN << >>
  ELSE LET info == tokenInfo[start + 1]
       IN IF shouldSkip(info.token)
          THEN forestWithin(tokenInfo, start + 1, end)
          ELSE LET closeIndex == start + (IF info.closeOffset = None THEN 0
                                          ELSE info.closeOffset[1])
                   subforest == forestWithin(tokenInfo, start + 1, closeIndex)
               IN << Tree(TagSpan(start, closeIndex), subforest) >>
                    \o forestWithin(tokenInfo, closeIndex + 1, end)

\* Variant: the forest is not normalised by fixTree.
fromTagInfo_unfixed(tokenInfo) == forestWithin(tokenInfo, 0, Len(tokenInfo))

fromTagInfo(tokenInfo) == fixTree(forestWithin(tokenInfo, 0, Len(tokenInfo)))

(***************************************************************************)
(* TagSpec (Internal/Tag/TagSpec.ts)                                       *)
(***************************************************************************)
SelectContext(position, inChroot) == [position |-> position, inChroot |-> inChroot]
TagSpec(context, hierarchy, tgs) ==
  [context |-> context, hierarchy |-> hierarchy, tags |-> tgs]

tagsToSpec(ts) ==
  LET annotated == annotateTags(ts)
  IN TagSpec(SelectContext(0, FALSE), fromTagInfo(annotated), annotated)

NoSpec == TagSpec(SelectContext(0, FALSE), << >>, << >>)

(***************************************************************************)
(* MatchResult (Internal/MatchResult.ts)                                   *)
(***************************************************************************)
MatchOk == "MatchOk"
MatchFail == "MatchFail"
MatchCull == "MatchCull"

fromBoolean(bool) == IF bool THEN MatchOk ELSE MatchFail

\* semigroupMatchResult.concat
concatMatchResult(x, y) ==
  IF x = MatchCull \/ y = MatchCull THEN MatchCull
  ELSE IF x = MatchOk /\ y = MatchOk THEN MatchOk
  ELSE MatchFail

(***************************************************************************)
(* Selectors (Select.ts)                                                   *)
(***************************************************************************)
SelectOne(tag, predicates) ==
  [type |-> "SelectOne", tag |-> tag, predicates |-> predicates]
SelectAny(predicates) == [type |-> "SelectAny", predicates |-> predicates]
SelectText == [type |-> "SelectText"]

SelectSettings(depth) == [depth |-> depth]
defaultSelectSettings == SelectSettings(None)
Selection(strategy, settings) == [strategy |-> strategy, settings |-> settings]

tag(name) == << Selection(SelectOne(name, << >>), defaultSelectSettings) >>
any == << Selection(SelectAny(<< >>), defaultSelectSettings) >>
text == << Selection(SelectText, defaultSelectSettings) >>

\* atDepth(depth)(selector): the depth of the last selection is replaced.
atDepth(depth, sel) ==
  [i \in 1..Len(sel) |->
     IF i - 1 = Len(sel) - 1
     THEN Selection(sel[i].strategy, SelectSettings(Some(depth)))
     ELSE sel[i]]

\* atDepth of Internal/tagInfo.ts: ReadonlyArray.reduce over the selector
\* from the empty array, each selection prepended to the accumulator.
RECURSIVE effectAtDepthReduce(_, _, _, _)
effectAtDepthReduce(sel, depth, index, acc) ==
  IF index >= Len(sel) THEN acc
  ELSE LET curr == sel[index + 1]
       IN effectAtDepthReduce(sel, depth, index + 1,
            IF index = Len(sel) - 1
            THEN << Selection(curr.strategy, SelectSettings(Some(depth))) >> \o acc
            ELSE << curr >> \o acc)

effectAtDepth(depth, sel) == effectAtDepthReduce(sel, depth, 0, << >>)

\* nested(parent)(child) = concat(child, parent); in pipe(tag('a'),
\* nested(tag('b'))) the piped selector is the second argument, so the
\* selection to satisfy first is the head of the list.
nested(parent, child) == child \o parent

\* An attribute predicate is modelled by the attribute(key, value) combinator.
attributePredicate(p, attrs) ==
  \E i \in 1..Len(attrs) : attrs[i].key = p.key /\ attrs[i].value = p.value

checkPredicates(token, predicates) ==
  IF predicates = << >>
  THEN fromBoolean(token.type \in { "TagOpen", "Text" })
  ELSE fromBoolean(token.type = "TagOpen" /\
                   \A i \in 1..Len(predicates) :
                      attributePredicate(predicates[i], token.attributes))

\* Tag names are compared in lower case; the names of the model are lower case.
checkTag(tagName, predicates, info) ==
  concatMatchResult(checkPredicates(info.token, predicates),
                    fromBoolean(info.token.type = "TagOpen" /\
                                info.token.name = tagName))

\* Tr.foldMap(monoidSum): the spans of a tree that contain the current node.
RECURSIVE countContaining(_, _)
countContaining(forest, current) ==
  IF forest = << >> THEN 0
  ELSE LET t == Head(forest)
           isChildOf == t.value.start < current.start
           exceedsDepth == current.end < t.value.end
       IN (IF isChildOf /\ exceedsDepth THEN 1 ELSE 0)
            + countContaining(t.forest, current)
            + countContaining(Tail(forest), current)

\* Variant: a node deeper than the requested depth is accepted, not culled.
checkSettings_atLeast(settings, curr, root) ==
  IF settings.depth = None THEN MatchOk
  ELSE IF curr.hierarchy = << >> THEN MatchOk
  ELSE LET depth == settings.depth[1]
           currentDepth == countContaining(root.hierarchy, Head(curr.hierarchy).value)
       IN IF currentDepth < depth THEN MatchFail ELSE MatchOk

\* Variant: a node above the depth is culled, a node below it fails.
checkSettings_cullShallow(settings, curr, root) ==
  IF settings.depth = None THEN MatchOk
  ELSE IF curr.hierarchy = << >> THEN MatchOk
  ELSE LET depth == settings.depth[1]
           currentDepth == countContaining(root.hierarchy, Head(curr.hierarchy).value)
       IN IF currentDepth < depth THEN MatchCull
          ELSE IF currentDepth > depth THEN MatchFail
          ELSE MatchOk

checkSettings(settings, curr, root) ==
  IF settings.depth = None THEN MatchOk
  ELSE IF curr.hierarchy = << >> THEN MatchOk
  ELSE LET depth == settings.depth[1]
           currentDepth == countContaining(root.hierarchy, Head(curr.hierarchy).value)
       IN IF currentDepth < depth THEN MatchFail
          ELSE IF currentDepth > depth THEN MatchCull
          ELSE MatchOk

nodeMatches(selection, info, curr, root) ==
  CASE selection.strategy.type = "SelectOne" ->
         concatMatchResult(checkSettings(selection.settings, curr, root),
                           checkTag(selection.strategy.tag,
                                    selection.strategy.predicates, info))
    [] selection.strategy.type = "SelectAny" ->
         concatMatchResult(checkSettings(selection.settings, curr, root),
                           checkPredicates(info.token, selection.strategy.predicates))
    [] OTHER ->
         concatMatchResult(checkSettings(selection.settings, curr, root),
                           fromBoolean(info.token.type = "Text"))

recenter(parent, child) ==
  TagSpan(child.start - parent.start, child.end - parent.start)

\* Tr.map(recenter(parent))
RECURSIVE recenterForest(_, _)
recenterForest(parent, forest) ==
  [i \in 1..Len(forest) |->
     Tree(recenter(parent, forest[i].value), recenterForest(parent, forest[i].forest))]

\* Array.prototype.slice(start, end) on 0-based indices.
slice(xs, start, end) ==
  LET to == IF end > Len(xs) THEN Len(xs) ELSE end
  IN IF start >= to THEN << >> ELSE SubSeq(xs, start + 1, to)

\* Variant: the slice stops before the closing token of the node.
shrinkSpecWith_exclusive(sp, parent) ==
  TagSpec(sp.context,
          recenterForest(parent.value, << parent >>),
          slice(sp.tags, parent.value.start, parent.value.end))

shrinkSpecWith(sp, parent) ==
  TagSpec(sp.context,
          recenterForest(parent.value, << parent >>),
          slice(sp.tags, parent.value.start, parent.value.end + 1))

updateHierarchy(curr, hierarchy) == TagSpec(curr.context, hierarchy, curr.tags)

\* liftSiblings(acc)(start, end)(forest)
RECURSIVE liftSiblings(_, _, _, _)
liftSiblings(acc, start, end, forest) ==
  IF forest = << >> THEN acc
  ELSE LET t == Head(forest)
           ts == Tail(forest)
       IN IF start < t.value.start /\ t.value.end < end
          THEN << t >> \o liftSiblings(acc, start, end, ts)
          ELSE IF end < t.value.start \/ t.value.end < start
          THEN liftSiblings(acc, start, end, ts)
          ELSE liftSiblings(t.forest, start, end, liftSiblings(acc, start, end, ts))

\* selectNodes(selectors, curr, root)(acc); pipe(acc, g, h) is h(g(acc)).
RECURSIVE selectNodes(_, _, _, _)
selectNodes(selectors, curr, root, acc) ==
  IF selectors = << >> \/ curr.hierarchy = << >> THEN acc
  ELSE LET n == Head(selectors)
           ns == Tail(selectors)
           f == Head(curr.hierarchy)
           fs == Tail(curr.hierarchy)
           start == f.value.start
           end == f.value.end
           m == nodeMatches(n, curr.tags[start + 1], curr, root)
       IN IF ns = << >>
          THEN CASE m = MatchOk ->
                      << shrinkSpecWith(curr, f) >> \o
                        selectNodes(<< n >>, updateHierarchy(curr, fs), root,
                          selectNodes(<< n >>, updateHierarchy(curr, f.forest), root, acc))
                 [] m = MatchCull ->
                      selectNodes(<< n >>, updateHierarchy(curr, fs), root, acc)
                 [] OTHER ->
                      selectNodes(<< n >>, updateHierarchy(curr, f.forest), root,
                        selectNodes(<< n >>, updateHierarchy(curr, fs), root, acc))
          ELSE LET siblings == liftSiblings(<< >>, start, end, fs)
               IN CASE m = MatchOk ->
                         selectNodes(ns,
                                     updateHierarchy(curr, f.forest \o siblings),
                                     updateHierarchy(curr, << f >> \o siblings),
                           selectNodes(selectors, updateHierarchy(curr, fs), root, acc))
                    [] m = MatchCull ->
                         selectNodes(selectors, updateHierarchy(curr, fs), root, acc)
                    [] OTHER ->
                         selectNodes(selectors, updateHierarchy(curr, f.forest), root,
                           selectNodes(selectors, updateHierarchy(curr, fs), root, acc))

\* Variant: the emitted specs keep the context of the spec selected from.
select_keepContext(sel, sp) == selectNodes(sel, sp, sp, << >>)

\* select(selector)(spec): the emitted specs, re-indexed in emission order.
select(sel, sp) ==
  LET nodes == selectNodes(sel, sp, sp, << >>)
  IN [p \in 1..Len(nodes) |->
        TagSpec(SelectContext(p - 1, TRUE), nodes[p].hierarchy, nodes[p].tags)]

(***************************************************************************)
(* Scraper combinators (Scraper.ts)                                        *)
(***************************************************************************)
RECURSIVE RA_compact(_)
RA_compact(os) ==
  IF os = << >> THEN << >> ELSE Head(os) \o RA_compact(Tail(os))

\* A Scraper is a value that runScraper applies to a spec.
Position == [scraper |-> "position"]
Matches(sel) == [scraper |-> "matches", selector |-> sel]
Attr(key, sel) == [scraper |-> "attr", key |-> key, selector |-> sel]
ChrootsOf(sel, inner) == [scraper |-> "chroots", selector |-> sel, inner |-> inner]
ChrootOf(sel, inner) == [scraper |-> "chroot", selector |-> sel, inner |-> inner]
Texts(sel) == [scraper |-> "texts", selector |-> sel]
Attrs(key, sel) == [scraper |-> "attrs", key |-> key, selector |-> sel]
Html(sel) == [scraper |-> "html", selector |-> sel]
Htmls(sel) == [scraper |-> "htmls", selector |-> sel]
InnerHTML(sel) == [scraper |-> "innerHTML", selector |-> sel]
InnerHTMLs(sel) == [scraper |-> "innerHTMLs", selector |-> sel]
\* The combinators of the second Scraper module of Scraper.ts (Reader based).
ReaderInnerHTML(sel) == [scraper |-> "readerInnerHTML", selector |-> sel]
ReaderInnerHTMLs(sel) == [scraper |-> "readerInnerHTMLs", selector |-> sel]
\* chroots of Internal/zipper.ts
EffectChrootsOf(sel, inner) ==
  [scraper |-> "effectChroots", selector |-> sel, inner |-> inner]

tagsToPosition(sp) == sp.context.position

\* position: RO.asks never fails.
position(sp) == Some(tagsToPosition(sp))

\* getAttribute(key): the value of the first attribute with the key.
getAttribute(key, attributes) ==
  LET hits == SelectSeq(attributes, LAMBDA a : a.key = key)
  IN IF hits = << >> THEN None ELSE Some(hits[1].value)

\* tagsToAttr(key): RA.findFirstMap over the tags of the spec.
RECURSIVE findFirstAttr(_, _)
findFirstAttr(key, tgs) ==
  IF tgs = << >> THEN None
  ELSE LET token == Head(tgs).token
           found == IF token.type = "TagOpen"
                    THEN getAttribute(key, token.attributes) ELSE None
       IN IF isSome(found) THEN found ELSE findFirstAttr(key, Tail(tgs))

tagsToAttr(key, sp) == findFirstAttr(key, sp.tags)

\* Every combinator but position is pipe(RO.asks(S.select(selector)), f):
\* runScraper asks for the selection and hands it, as specs, to f.

\* attr(key, selector)
attr(key, specs) ==
  RA_head(RA_compact([i \in 1..Len(specs) |-> tagsToAttr(key, specs[i])]))

\* attrs(key, selector): RO.map of RA.compact, never None.
attrs(key, specs) ==
  Some(RA_compact([i \in 1..Len(specs) |-> tagsToAttr(key, specs[i])]))

\* A string is the sequence of its pieces; string concatenation is \o and
\* the empty string is << >>.
showAttribute(a) == << " ", a.key, "=\"", ToString(a.value), "\"" >>

RECURSIVE showAttributes(_)
showAttributes(attributes) ==
  IF attributes = << >> THEN << >>
  ELSE showAttribute(Head(attributes)) \o showAttributes(Tail(attributes))

\* showToken.show
showToken(token) ==
  CASE token.type = "TagOpen" ->
         << "<", token.name >> \o showAttributes(token.attributes) \o << ">" >>
    [] token.type = "TagClose" -> << "</", token.name, ">" >>
    [] token.type = "Text" -> << ToString(token.text) >>
    [] OTHER -> << "<!--", ToString(token.comment), "-->" >>

\* The fold of tagsToText: the text of a Text token, empty otherwise.
textOfToken(token) ==
  IF token.type = "Text" THEN << ToString(token.text) >> ELSE << >>

\* foldSpec(monoidString)(f) with f = showToken.show or the fold of tagsToText
RECURSIVE foldSpec(_, _)
foldSpec(f, tgs) ==
  IF tgs = << >> THEN << >>
  ELSE (IF f = "show" THEN showToken(Head(tgs).token) ELSE textOfToken(Head(tgs).token))
         \o foldSpec(f, Tail(tgs))

tagsToText(sp) == foldSpec("text", sp.tags)
tagsToHtml(sp) == foldSpec("show", sp.tags)

\* tagsToInnerHTML of the second Scraper module: slice(1, len - 2).
readerTagsToInnerHTML(sp) ==
  IF Len(sp.tags) < 2 THEN << >>
  ELSE tagsToHtml([sp EXCEPT !.tags = slice(sp.tags, 1, Len(sp.tags) - 2)])

tagsToInnerHTML(sp) ==
  IF Len(sp.tags) < 2 THEN << >>
  ELSE tagsToHtml([sp EXCEPT !.tags = slice(sp.tags, 1, Len(sp.tags) - 1)])

\* The function handed to withFirst / withAll.
extract(f, sp) ==
  CASE f = "tagsToText" -> tagsToText(sp)
    [] f = "tagsToHtml" -> tagsToHtml(sp)
    [] f = "tagsToInnerHTML" -> tagsToInnerHTML(sp)
    [] OTHER -> readerTagsToInnerHTML(sp)

\* Variant: the last selected region instead of the first.
withFirst_last(f, specs) ==
  IF specs = << >> THEN None ELSE Some(extract(f, specs[Len(specs)]))

\* flow(RA.head, O.map(f), RO.fromOption)
withFirst(f, specs) == IF specs = << >> THEN None ELSE Some(extract(f, Head(specs)))

\* RA.traverse(RO.Applicative)(flow(f, RO.some))
withAll(f, specs) == Some([i \in 1..Len(specs) |-> extract(f, specs[i])])

texts(specs) == withAll("tagsToText", specs)
html(specs) == withFirst("tagsToHtml", specs)
htmls(specs) == withAll("tagsToHtml", specs)
innerHTML(specs) == withFirst("tagsToInnerHTML", specs)
innerHTMLs(specs) == withAll("tagsToInnerHTML", specs)
readerInnerHTML(specs) == withFirst("readerTagsToInnerHTML", specs)
readerInnerHTMLs(specs) == withAll("readerTagsToInnerHTML", specs)

\* matches(selector): succeeds with void when the selection is not empty.
matches(specs) == IF specs = << >> THEN None ELSE Some("void")

RECURSIVE runScraper(_, _)

\* chroots(selector)(scraper): the scraper is run on every selected spec and
\* the failures are dropped.
chroots(scraper, specs) ==
  Some(RA_compact([i \in 1..Len(specs) |-> runScraper(scraper, specs[i])]))

\* chroot(selector)(scraper): the head of what chroots returns.
chroot(scraper, specs) == RA_head(chroots(scraper, specs)[1])

\* The result of chroots of Internal/zipper.ts: None when nothing is left.
noneIfEmpty(results) == IF results = << >> THEN None ELSE Some(results)

\* chroots of Internal/zipper.ts
effectChroots(scraper, specs) == noneIfEmpty(chroots(scraper, specs)[1])

\* f(select(selector)(spec)) for the f of the scraper
scrapeSelection(scraper, specs) ==
  CASE scraper.scraper = "matches" -> matches(specs)
    [] scraper.scraper = "attr" -> attr(scraper.key, specs)
    [] scraper.scraper = "attrs" -> attrs(scraper.key, specs)
    [] scraper.scraper = "texts" -> texts(specs)
    [] scraper.scraper = "html" -> html(specs)
    [] scraper.scraper = "htmls" -> htmls(specs)
    [] scraper.scraper = "innerHTML" -> innerHTML(specs)
    [] scraper.scraper = "innerHTMLs" -> innerHTMLs(specs)
    [] scraper.scraper = "readerInnerHTML" -> readerInnerHTML(specs)
    [] scraper.scraper = "readerInnerHTMLs" -> readerInnerHTMLs(specs)
    [] scraper.scraper = "chroot" -> chroot(scraper.inner, specs)
    [] scraper.scraper = "effectChroots" -> effectChroots(scraper.inner, specs)
    [] OTHER -> chroots(scraper.inner, specs)

\* scraper(tagSpec)
runScraper(scraper, sp) ==
  IF scraper.scraper = "position" THEN position(sp)
  ELSE scrapeSelection(scraper, select(scraper.selector, sp))

(***************************************************************************)
(* Zipper (fp-ts-contrib/Zipper, imported by SerialScraper.ts as Z)        *)
(***************************************************************************)
Z_make(lefts, focus, rights) == [lefts |-> lefts, focus |-> focus, rights |-> rights]
Z_of(focus) == Z_make(<< >>, focus, << >>)
Z_toArray(fa) == fa.lefts \o << fa.focus >> \o fa.rights

Z_fromArray(as, focusIndex) ==
  IF as = << >> \/ focusIndex < 0 \/ focusIndex >= Len(as) THEN None
  ELSE Some(Z_make(SubSeq(as, 1, focusIndex),
                   as[focusIndex + 1],
                   SubSeq(as, focusIndex + 2, Len(as))))

\* move(f, fa) with f = decrement
Z_up(fa) == Z_fromArray(Z_toArray(fa), Len(fa.lefts) - 1)
\* move(f, fa) with f = increment
Z_down(fa) == Z_fromArray(Z_toArray(fa), Len(fa.lefts) + 1)

Z_insertLeft(a, fa) == Z_make(fa.lefts, a, << fa.focus >> \o fa.rights)
Z_insertRight(a, fa) == Z_make(fa.lefts \o << fa.focus >>, a, fa.rights)

(***************************************************************************)
(* SerialScraper (SerialScraper.ts) over StateOption                        *)
(* (Internal/StateOption.ts): a computation takes a state and returns None *)
(* or Some(<< value, state >>).  A SerialScraper is a value that runSerial *)
(* applies to a zipper.                                                    *)
(***************************************************************************)
RECURSIVE reduceRightInsert(_)
reduceRightInsert(specs) ==
  IF specs = << >> THEN Z_of(None)
  ELSE Z_insertLeft(Some(Head(specs)), reduceRightInsert(Tail(specs)))

zipperFromList_unpadded(specs) == reduceRightInsert(specs)

zipperFromList(specs) == Z_insertLeft(None, reduceRightInsert(specs))

toZipper(sp) ==
  zipperFromList([i \in 1..Len(sp.hierarchy) |->
                    TagSpec(sp.context, << sp.hierarchy[i] >>, sp.tags)])

StepNextOf(scraper) == [serial |-> "stepNext", scraper |-> scraper]
StepBackOf(scraper) == [serial |-> "stepBack", scraper |-> scraper]
OfValue(a) == [serial |-> "of", a |-> a]
MapSome(fa) == [serial |-> "map", fa |-> fa]
AltOf(fa, that) == [serial |-> "alt", fa |-> fa, that |-> that]

\* The move handed to stepWith: Z.up or Z.down.
applyMove(move, s) == IF move = "up" THEN Z_up(s) ELSE Z_down(s)

\* The last step of stepWith: SO.put(next), then the value of the scraper.
putNext(value, next) ==
  IF value = None THEN None ELSE Some(<< value[1], next >>)

stepWith(move, scraper, s) ==
  LET next == applyMove(move, s)
  IN IF next = None THEN None
     ELSE IF next[1].focus = None THEN None
     ELSE putNext(runScraper(scraper, next[1].focus[1]), next[1])

stepBack(scraper, s) == stepWith("up", scraper, s)

\* Variant: the moved zipper is not put back into the state.
stepNext_uncommitted(scraper, s) ==
  LET r == stepWith("down", scraper, s)
  IN IF r = None THEN None ELSE Some(<< r[1][1], s >>)

stepNext(scraper, s) == stepWith("down", scraper, s)

\* O.alt: the second Option when the first is None.
O_alt(first, second) == IF first = None THEN second ELSE first

\* runScraper(zipper) of seekWith: the focus read is the focus of the state
\* (SO.get), the zipper put on success is the parameter.
seekRunScraper(scraper, zp, s) ==
  IF s.focus = None THEN None
  ELSE putNext(runScraper(scraper, s.focus[1]), zp)

\* go(prev) of seekWith, run on the state s.
RECURSIVE seekGo(_, _, _, _)
seekGo(move, scraper, prev, s) ==
  IF applyMove(move, prev) = None THEN None
  ELSE O_alt(seekRunScraper(scraper, applyMove(move, prev)[1], s),
             seekGo(move, scraper, applyMove(move, prev)[1], s))

\* pipe(SO.get(), SO.chain(go))
seekWith(move, scraper, s) == seekGo(move, scraper, s, s)

seekBack(scraper, s) == seekWith("up", scraper, s)
seekNext(scraper, s) == seekWith("down", scraper, s)

SeekNextOf(scraper) == [serial |-> "seekNext", scraper |-> scraper]
SeekBackOf(scraper) == [serial |-> "seekBack", scraper |-> scraper]

\* appendNode of untilWith: Z.insertLeft (untilNext) or Z.insertRight (untilBack).
applyAppend(appendNode, a, fa) ==
  IF appendNode = "insertLeft" THEN Z_insertLeft(a, fa) ELSE Z_insertRight(a, fa)

\* The inner chain of split: until(spec) succeeded gives the empty zipper,
\* otherwise the node is appended to what split(next) collected.
untilBranch_inclusive(appendNode, matched, node, rest) ==
  IF matched # None THEN applyAppend(appendNode, node, Z_of(None))
  ELSE applyAppend(appendNode, node, rest)

untilBranch(appendNode, matched, node, rest) ==
  IF matched # None THEN Z_of(None) ELSE applyAppend(appendNode, node, rest)

\* split(prev) of untilWith.  It reads and changes no state and, by its final
\* alt, never fails: the value is the zipper it collected.
RECURSIVE untilSplit(_, _, _, _)
untilSplit(move, appendNode, until, prev) ==
  LET next == applyMove(move, prev)
  IN IF next = None THEN Z_of(None)
     ELSE IF next[1].focus = None THEN Z_of(None)
     ELSE untilBranch(appendNode,
                      runScraper(until, next[1].focus[1]),
                      next[1].focus,
                      untilSplit(move, appendNode, until, next[1]))

\* SO.fromOption(ma) on the state s
SO_fromOption(ma, s) == IF ma = None THEN None ELSE Some(<< ma[1], s >>)

\* O.map(([a]) => a) of evaluate
resultValue(r) == IF r = None THEN None ELSE Some(r[1][1])

RECURSIVE runSerial(_, _)

\* SO.evaluate(s)(ma)
SO_evaluate(serial, s) == resultValue(runSerial(serial, s))

\* untilWith: the inner scraper is evaluated on the collected zipper; the
\* state handed on is the state untilWith was entered with.
untilWith(move, appendNode, until, inner, s) ==
  SO_fromOption(
    SO_evaluate(inner, applyAppend(appendNode, None,
                                   untilSplit(move, appendNode, until, s))),
    s)

untilBack(until, inner, s) == untilWith("up", "insertRight", until, inner, s)
untilNext(until, inner, s) == untilWith("down", "insertLeft", until, inner, s)

UntilNextOf(until, inner) == [serial |-> "untilNext", until |-> until, inner |-> inner]
UntilBackOf(until, inner) == [serial |-> "untilBack", until |-> until, inner |-> inner]
RepeatOf(fa) == [serial |-> "repeat", fa |-> fa]
Repeat1Of(fa) == [serial |-> "repeat1", fa |-> fa]

\* Variant: the head is collected twice.
consHead_doubled(head, r) == Some(<< << head, head >> \o r[1][1], r[1][2] >>)

\* SO.map((tail) => RNEA.cons(head, tail)) on the result of repeat
consHead(head, r) == Some(<< << head >> \o r[1][1], r[1][2] >>)

repeatTail_once(fa, r) ==
  IF r = None THEN None ELSE Some(<< << r[1][1] >>, r[1][2] >>)

RECURSIVE repeat(_, _)

\* SO.chain((head) => pipe(repeat(scraper), SO.map(cons(head))))
repeatTail(fa, r) ==
  IF r = None THEN None ELSE consHead(r[1][1], repeat(fa, r[1][2]))

repeat1(fa, s) == repeatTail(fa, runSerial(fa, s))

SO_of(a, s) == Some(<< a, s >>)

repeat(fa, s) == O_alt(repeat1(fa, s), SO_of(<< >>, s))

\* map(f)(fa) with f = O.some
SO_map(fa, s) ==
  LET r == runSerial(fa, s)
  IN IF r = None THEN None ELSE Some(<< Some(r[1][1]), r[1][2] >>)

\* alt: the alternative runs on the state the first computation was given.
SO_alt(fa, that, s) ==
  LET r == runSerial(fa, s) IN IF r = None THEN runSerial(that, s) ELSE r

SequenceOf(serials) == [serial |-> "sequence", serials |-> serials]

\* RA.sequence(Applicative): the computations run from left to right, each on
\* the state the one before it left (ap), and the values are collected.
sequenceCons(head, r) ==
  IF r = None THEN None ELSE Some(<< << head >> \o r[1][1], r[1][2] >>)

RECURSIVE sequenceSerial(_, _)

sequenceTail(serials, r) ==
  IF r = None THEN None ELSE sequenceCons(r[1][1], sequenceSerial(serials, r[1][2]))

sequenceSerial(serials, s) ==
  IF serials = << >> THEN SO_of(<< >>, s)
  ELSE sequenceTail(Tail(serials), runSerial(Head(serials), s))

\* serialScraper(zipper)
runSerial(serial, s) ==
  CASE serial.serial = "stepNext" -> stepNext(serial.scraper, s)
    [] serial.serial = "stepBack" -> stepBack(serial.scraper, s)
    [] serial.serial = "seekNext" -> seekNext(serial.scraper, s)
    [] serial.serial = "seekBack" -> seekBack(serial.scraper, s)
    [] serial.serial = "untilNext" -> untilNext(serial.until, serial.inner, s)
    [] serial.serial = "untilBack" -> untilBack(serial.until, serial.inner, s)
    [] serial.serial = "repeat" -> repeat(serial.fa, s)
    [] serial.serial = "repeat1" -> repeat1(serial.fa, s)
    [] serial.serial = "sequence" -> sequenceSerial(serial.serials, s)
    [] serial.serial = "of" -> SO_of(serial.a, s)
    [] serial.serial = "map" -> SO_map(serial.fa, s)
    [] OTHER -> SO_alt(serial.fa, serial.that, s)

(***************************************************************************)
(* The earlier SerialScraper, State<SpecZipper, Option<A>>: a computation  *)
(* always returns a state, with or without a value                         *)
(***************************************************************************)
StateResult(value, state) == [value |-> value, state |-> state]

\* stepWith: every stage before put(next) leaves the state as it was.
stateStep(r, s) ==
  IF r = None THEN StateResult(None, s) ELSE StateResult(Some(r[1][1]), r[1][2])

stateStepWith(move, scraper, s) == stateStep(stepWith(move, scraper, s), s)

RECURSIVE stateRunSerial(_, _)

\* map((tail) => cons(head, tail)) = S.map(O.map(f))
stateConsHead(head, r) ==
  IF r.value = None THEN r
  ELSE StateResult(Some(<< head >> \o r.value[1]), r.state)

RECURSIVE stateChainAll(_, _)

\* chain = S.chain(O.fold(() => none, f)): without a value the state the
\* first computation left is returned.
stateChain(serials, r) ==
  IF r.value = None THEN r
  ELSE stateConsHead(r.value[1], stateChainAll(serials, r.state))

\* pipe(head, chain((a) => pipe(rest, map(cons(a))))) over a list of steps.
stateChainAll(serials, s) ==
  IF serials = << >> THEN StateResult(Some(<< >>), s)
  ELSE stateChain(Tail(serials), stateRunSerial(Head(serials), s))

\* alt = S.chain(O.fold(that, some)): that runs on the state fa left.
stateAltThen(r, that) ==
  IF r.value = None THEN stateRunSerial(that, r.state) ELSE r

stateAlt(fa, that, s) == stateAltThen(stateRunSerial(fa, s), that)

RECURSIVE stateRepeat(_, _)

\* chain((head) => pipe(repeat(serialScraper), map((tail) => cons(head, tail))))
stateRepeatTail(fa, r) ==
  IF r.value = None THEN r
  ELSE stateConsHead(r.value[1], stateRepeat(fa, r.state))

stateRepeat1(fa, s) == stateRepeatTail(fa, stateRunSerial(fa, s))

stateRepeat(fa, s) == stateAltThen(stateRepeat1(fa, s), OfValue(<< >>))

stateRunSerial(serial, s) ==
  CASE serial.serial = "stepNext" -> stateStepWith("down", serial.scraper, s)
    [] serial.serial = "stepBack" -> stateStepWith("up", serial.scraper, s)
    [] serial.serial = "repeat" -> stateRepeat(serial.fa, s)
    [] serial.serial = "sequence" -> stateChainAll(serial.serials, s)
    [] serial.serial = "of" -> StateResult(Some(serial.a), s)
    [] OTHER -> stateAlt(serial.fa, serial.that, s)

\* The zipper inSerial evaluates the serial scraper on: in a chroot the
\* children of the first root, otherwise the roots.
inSerialZipper_roots(sp) == toZipper(sp)

inSerialZipper(sp) ==
  IF sp.context.inChroot
  THEN toZipper(TagSpec(sp.context, sp.hierarchy[1].forest, sp.tags))
  ELSE toZipper(sp)

inSerial(serial, sp) ==
  IF sp.hierarchy = << >> THEN None ELSE SO_evaluate(serial, inSerialZipper(sp))

(***************************************************************************)
(* The scrape driver                                                       *)
(***************************************************************************)
Init ==
  /\ pc = "tokenize"
  /\ tokens = << >>
  /\ tags = << >>
  /\ spec = NoSpec
  /\ selector = << >>
  /\ selected = << >>
  /\ scraped = None
  /\ zipper = << >>
  /\ result = None

\* The tokenizer emits one more token.
Tokenize ==
  /\ pc = "tokenize"
  /\ Len(tokens) < MaxLen
  /\ \E k \in Kinds : tokens' = Append(tokens, MakeToken(k, Len(tokens)))
  /\ UNCHANGED << pc, tags, spec, selector, selected, scraped, zipper, result >>

\* tagsToSpec, first half: the stream has ended and is annotated.
Annotate ==
  /\ pc = "tokenize"
  /\ tags' = annotateTags(tokens)
  /\ pc' = "annotated"
  /\ UNCHANGED << tokens, spec, selector, selected, scraped, zipper, result >>

\* annotateTags of Internal/tagInfo.ts on the stream that has ended.
AnnotateEffect ==
  /\ pc = "tokenize"
  /\ tags' = effectAnnotateTags(tokens)
  /\ pc' = "effectAnnotated"
  /\ UNCHANGED << tokens, spec, selector, selected, scraped, zipper, result >>

\* tagsToSpec, second half: the forest is built over the annotated vector.
BuildSpec ==
  /\ pc = "annotated"
  /\ spec' = TagSpec(SelectContext(0, FALSE), fromTagInfo(tags), tags)
  /\ pc' = "spec"
  /\ UNCHANGED << tokens, tags, selector, selected, scraped, zipper, result >>

\* The selectors the driver runs: single selections and nested pairs, with
\* and without a depth.
SingleSelectors ==
  { tag("a"), any, text,
    atDepth(0, any), atDepth(1, any), atDepth(1, tag("b")) }

NestedSelectors ==
  { nested(tag("b"), tag("a")), nested(text, tag("a")), nested(any, tag("a")),
    nested(any, tag("b")),
    nested(atDepth(1, any), tag("a")), nested(atDepth(2, text), tag("a")) }

Selectors == SingleSelectors \cup NestedSelectors

\* select(selector)(spec)
Select ==
  /\ pc = "spec"
  /\ \E sel \in Selectors :
       /\ selector' = sel
       /\ selected' = select(sel, spec)
  /\ pc' = "selected"
  /\ UNCHANGED << tokens, tags, spec, scraped, zipper, result >>

\* pipe(position, chroots(inner), chroots(outer)) run on the spec.
ChrootPairs == { << tag("a"), any >>, << any, text >> }

Chroots ==
  /\ pc = "spec"
  /\ \E pair \in ChrootPairs :
       /\ selector' = pair
       /\ scraped' = runScraper(ChrootsOf(pair[1], ChrootsOf(pair[2], Position)), spec)
  /\ pc' = "scraped"
  /\ UNCHANGED << tokens, tags, spec, selected, zipper, result >>

Next == Tokenize \/ Annotate \/ BuildSpec \/ Select \/ Chroots

Spec == Init /\ [][Next]_vars

(***************************************************************************)
(* Views used to state the properties                                      *)
(***************************************************************************)
\* The trees of a forest in depth-first pre-order, siblings in list order.
RECURSIVE PreOrder(_)
PreOrder(forest) ==
  IF forest = << >> THEN << >>
  ELSE << Head(forest) >> \o PreOrder(Head(forest).forest) \o PreOrder(Tail(forest))

Range(xs) == { xs[i] : i \in 1..Len(xs) }

\* Every tree of a forest, at any depth.
Nodes(forest) == Range(PreOrder(forest))

\* Every list of siblings of a forest: the roots and each node's children.
SiblingLists(forest) == { forest } \cup { n.forest : n \in Nodes(forest) }

\* Every node of a forest together with the siblings listed after it.
Contexts(forest) ==
  UNION { { << l[i], SubSeq(l, i + 1, Len(l)) >> : i \in 1..Len(l) } :
            l \in SiblingLists(forest) }

StrictlyInside(inner, outer) ==
  outer.start < inner.start /\ inner.end < outer.end

\* The number of trees of a forest whose span strictly encloses a span.
CountEnclosing(forest, span) ==
  LET p == PreOrder(forest)
  IN Cardinality({ i \in 1..Len(p) : StrictlyInside(span, p[i].value) })

\* The index in the token stream that the first token of a spec came from.
Origin(sp) ==
  LET t == sp.tags[1].token
  IN IF t.type = "TagOpen" THEN t.attributes[1].value ELSE t.text

\* The span in the document of the region a spec was shrunk to.
OriginSpan(sp) == TagSpan(Origin(sp), Origin(sp) + Len(sp.tags) - 1)

\* A token satisfies the strategy of a selection, its settings left aside.
StrategyMatches(selection, token) ==
  CASE selection.strategy.type = "SelectOne" ->
         token.type = "TagOpen" /\ token.name = selection.strategy.tag
    [] selection.strategy.type = "SelectAny" -> token.type \in { "TagOpen", "Text" }
    [] OTHER -> token.type = "Text"

NoDepth(selection) == selection.settings.depth = None

Unclosed(i) == tags[i].token.type = "TagOpen" /\ tags[i].closeOffset = None
Unmatched(j) ==
  /\ tags[j].token.type = "TagClose"
  /\ \A i \in 1..Len(tags) : tags[i].closeOffset # Some(j - i)

\* The index of the token that closes the token at index i (i itself when
\* it has no closing tag).
CloseIndex(i) ==
  i + (IF tags[i + 1].closeOffset = None THEN 0 ELSE tags[i + 1].closeOffset[1])

\* Two tag spans of the annotated stream cross: the second opens inside the
\* first and closes after it.
Crossing ==
  \E i, j \in 0..(Len(tags) - 1) :
    i < j /\ j <= CloseIndex(i) /\ CloseIndex(i) < CloseIndex(j)

SiblingsDisjoint ==
  \A l \in SiblingLists(spec.hierarchy) :
    \A i, j \in 1..Len(l) : i < j => l[i].value.end < l[j].value.start

C3_BalancedClosures ==
  \A i \in 1..Len(tags) :
    isSome(tags[i].closeOffset) =>
      LET k == tags[i].closeOffset[1]
      IN /\ tags[i].token.type = "TagOpen"
         /\ k > 0
         /\ i + k <= Len(tokens)
         /\ tokens[i + k] = TagClose(tags[i].token.name)

\* An annotated stream with a tag closed at once, a tag closed further away
\* and tokens without offset.
C3_Witness ==
  /\ pc = "annotated"
  /\ \E i, j \in 1..Len(tags) :
       /\ tags[i].closeOffset = Some(1)
       /\ isSome(tags[j].closeOffset) /\ tags[j].closeOffset[1] > 1
  /\ \E i \in 1..Len(tags) : tags[i].token.type = "Text"

\* C4: every node lies within its parent, p.start < n.start <= n.end <= p.end,
\* for well-formed and malformed streams alike.
C4_NodeWithinParent ==
  \A p \in Nodes(spec.hierarchy) :
    /\ p.value.start <= p.value.end
    /\ \A i \in 1..Len(p.forest) :
         LET n == p.forest[i].value
         IN p.value.start < n.start /\ n.start <= n.end /\ n.end <= p.value.end

\* A forest built from crossing tags in which a node still has a child.
C4_Witness ==
  /\ pc = "spec"
  /\ Crossing
  /\ \E p \in Nodes(spec.hierarchy) : p.forest # << >>

\* C5 as stated: any two siblings a, b with a listed before b have
\* a.end < b.start, also when closing tags arrive out of order.
C5_SiblingsNeverOverlap == SiblingsDisjoint

\* C5 amended: siblings a before b have a.end < b.start whenever no two tag
\* spans of the stream cross; a tag that closes after the tag it opened in is
\* hoisted next to it and overlaps it.
C5_SiblingsDisjointUnlessCrossing == Crossing \/ SiblingsDisjoint

\* A forest without crossing tags that has siblings below a closed tag.
C5_Witness ==
  /\ pc = "spec"
  /\ ~Crossing
  /\ \E p \in Nodes(spec.hierarchy) : Len(p.forest) >= 2
  /\ Len(spec.hierarchy) >= 2

(***************************************************************************)
(* Properties of select and chroots                                        *)
(***************************************************************************)
TokenAt(span) == spec.tags[span.start + 1].token

\* C1: select returns the matched regions in depth-first pre-order with
\* siblings in document order: for a single selection without depth, the
\* emitted regions are the matching nodes of the forest in pre-order.
C1_PreOrderEmission ==
  (pc = "selected" /\ Len(selector) = 1 /\ NoDepth(selector[1])) =>
    LET matching == SelectSeq(PreOrder(spec.hierarchy),
                              LAMBDA n : StrategyMatches(selector[1], TokenAt(n.value)))
    IN /\ Len(selected) = Len(matching)
       /\ \A i \in 1..Len(selected) : OriginSpan(selected[i]) = matching[i].value

\* C6: every spec emitted for nested(a, b) is rooted at a node that matches b
\* and whose span lies strictly inside the span of a node that matches a.
C6_NestedInsideParentMatch ==
  (pc = "selected" /\ Len(selector) = 2) =>
    \A i \in 1..Len(selected) :
      LET o == OriginSpan(selected[i])
      IN /\ StrategyMatches(selector[2], TokenAt(o))
         /\ \E m \in Nodes(spec.hierarchy) :
              /\ StrategyMatches(selector[1], TokenAt(m.value))
              /\ StrictlyInside(o, m.value)

\* The root forest handed down from a match m of the first selection whose
\* later siblings are fs.
HandedDown(m, fs) ==
  << m >> \o liftSiblings(<< >>, m.value.start, m.value.end, fs)

\* C7: a selection made with atDepth(d) emits a node only when exactly d
\* spans of the root forest handed down from the previous match (the whole
\* spec for the first selection) strictly enclose it.
C7_ExactDepth ==
  (pc = "selected" /\ ~NoDepth(selector[Len(selector)])) =>
    LET d == selector[Len(selector)].settings.depth[1]
    IN \A i \in 1..Len(selected) :
         LET o == OriginSpan(selected[i])
         IN IF Len(selector) = 1
            THEN CountEnclosing(spec.hierarchy, o) = d
            ELSE \E c \in Contexts(spec.hierarchy) :
                   /\ StrategyMatches(selector[1], TokenAt(c[1].value))
                   /\ CountEnclosing(HandedDown(c[1], c[2]), o) = d

\* A node emitted at depth 1 below a previous match, in a forest that also
\* holds a node at depth 2 or more.
C7_Witness ==
  /\ pc = "selected"
  /\ Len(selector) = 2
  /\ selector[2].settings.depth = Some(1)
  /\ selected # << >>
  /\ \E n \in Nodes(spec.hierarchy) : CountEnclosing(spec.hierarchy, n.value) >= 2

\* C8: the spec emitted for a matched node f has as hierarchy the single tree
\* f with every span shifted by -f.start and as tags tags[f.start .. f.end]
\* inclusive; every span of the emitted hierarchy indexes inside its tags.
C8_ShrunkToNode ==
  pc = "selected" =>
    \A i \in 1..Len(selected) :
      LET e == selected[i]
          shrunk == PreOrder(e.hierarchy)
      IN /\ e.tags # << >>
         /\ Len(e.hierarchy) = 1
         /\ \E f \in Nodes(spec.hierarchy) :
              LET whole == PreOrder(<< f >>)
              IN /\ f.value.start = Origin(e)
                 /\ e.tags = SubSeq(spec.tags, f.value.start + 1, f.value.end + 1)
                 /\ e.hierarchy[1].value = TagSpan(0, f.value.end - f.value.start)
                 /\ Len(shrunk) = Len(whole)
                 /\ \A k \in 1..Len(whole) :
                      /\ shrunk[k].value.start = whole[k].value.start - f.value.start
                      /\ shrunk[k].value.end = whole[k].value.end - f.value.start
                      /\ Len(shrunk[k].forest) = Len(whole[k].forest)
         /\ \A k \in 1..Len(shrunk) :
              /\ 0 <= shrunk[k].value.start
              /\ shrunk[k].value.start <= shrunk[k].value.end
              /\ shrunk[k].value.end <= Len(e.tags) - 1

\* A node with children, not at the start of the document, is emitted.
C8_Witness ==
  /\ pc = "selected"
  /\ \E i \in 1..Len(selected) :
       /\ Origin(selected[i]) > 0
       /\ selected[i].hierarchy[1].forest # << >>
       /\ Len(selected[i].tags) >= 3

\* C9: the i-th spec returned by select carries {position: i, inChroot: true};
\* position under the inner scraper of chroots is the index of the region
\* among that chroots' matches and restarts at 0 under each enclosing chroots.
C9_PositionReindexed ==
  /\ pc = "selected" =>
       \A i \in 1..Len(selected) : selected[i].context = SelectContext(i - 1, TRUE)
  /\ pc = "scraped" =>
       /\ isSome(scraped)
       /\ Len(scraped[1]) = Len(select(selector[1], spec))
       /\ \A j \in 1..Len(scraped[1]) :
            scraped[1][j] = [k \in 1..Len(scraped[1][j]) |-> k - 1]

\* Two outer regions, the second of them with matches of its own, and a region
\* with two inner matches.
C9_Witness ==
  /\ pc = "scraped"
  /\ Len(scraped[1]) >= 2
  /\ scraped[1][2] # << >>
  /\ \E j \in 1..Len(scraped[1]) : Len(scraped[1][j]) >= 2

(***************************************************************************)
(* The serial driver: steps run one after the other on the zipper of a     *)
(* document, each under alt so that the run goes on after a failed step.   *)
(***************************************************************************)
Streams(n) ==
  { [i \in 1..n |-> MakeToken(ks[i], i - 1)] : ks \in [1..n -> Kinds] }

InitSerial ==
  /\ pc = "serial"
  /\ tokens \in UNION { Streams(n) : n \in 0..MaxSerialLen }
  /\ tags = annotateTags(tokens)
  /\ spec = tagsToSpec(tokens)
  /\ selector = << >>
  /\ selected = << >>
  /\ scraped = None
  /\ zipper = toZipper(spec)
  /\ result = None

\* pipe(step, SO.map(O.some), SO.alt(() => SO.of(O.none))) run on the zipper.
attempt(step) == AltOf(MapSome(step), OfValue(None))

\* The scrapers handed to the steps.
Scrapers == { Attr("id", tag("a")), Attr("id", any), Matches(text) }

StepNext ==
  /\ pc = "serial"
  /\ \E sc \in Scrapers :
       LET r == runSerial(attempt(StepNextOf(sc)), zipper)
       IN /\ zipper' = r[1][2]
          /\ result' = Some([op |-> "stepNext", scraper |-> sc, value |-> r[1][1]])
  /\ UNCHANGED << pc, tokens, tags, spec, selector, selected, scraped >>

StepBack ==
  /\ pc = "serial"
  /\ \E sc \in Scrapers :
       LET r == runSerial(attempt(StepBackOf(sc)), zipper)
       IN /\ zipper' = r[1][2]
          /\ result' = Some([op |-> "stepBack", scraper |-> sc, value |-> r[1][1]])
  /\ UNCHANGED << pc, tokens, tags, spec, selector, selected, scraped >>

NextSerial == StepNext \/ StepBack


SpecSerial == InitSerial /\ [][NextSerial]_vars

(***************************************************************************)
(* Properties of the serial steps                                          *)
(***************************************************************************)
\* C10: stepNext / stepBack moves the focus one position forward / backward;
\* when the new focus holds Some(spec) and the scraper succeeds on it, the
\* moved zipper is committed and the scraper's result returned; when the move
\* is impossible, the new focus is a None sentinel or the scraper fails, the
\* step fails and the zipper is left exactly as it was.
C10_StepMovesOrRestores ==
  [][ LET last == result'[1]
          list == Z_toArray(zipper)
          index == Len(zipper.lefts)
          target == IF last.op = "stepNext" THEN index + 1 ELSE index - 1
          succeeds == /\ 0 <= target /\ target < Len(list)
                      /\ isSome(list[target + 1])
                      /\ isSome(runScraper(last.scraper, list[target + 1][1]))
      IN IF succeeds
         THEN /\ Z_toArray(zipper') = list
              /\ Len(zipper'.lefts) = target
              /\ last.value = runScraper(last.scraper, list[target + 1][1])
         ELSE /\ zipper' = zipper
              /\ last.value = None ]_vars

\* A stepBack that succeeded on the first spec, after steps forward.
C10_Witness ==
  /\ pc = "serial"
  /\ isSome(result)
  /\ result[1].op = "stepBack"
  /\ isSome(result[1].value)
  /\ Len(zipper.lefts) = 1
  /\ Len(zipper.rights) >= 2

(***************************************************************************)
(* The combinator driver: the focus is advanced over the zipper of a       *)
(* document by stepNext(position), then one combinator is run, under alt.  *)
(***************************************************************************)
InitCombinators ==
  /\ pc = "combinators"
  /\ tokens \in UNION { Streams(n) : n \in 0..MaxCombLen }
  /\ tags = annotateTags(tokens)
  /\ spec = tagsToSpec(tokens)
  /\ selector = << >>
  /\ selected = << >>
  /\ scraped = None
  /\ zipper = toZipper(spec)
  /\ result = None

Advance ==
  /\ pc = "combinators"
  /\ runSerial(StepNextOf(Position), zipper) # None
  /\ zipper' = runSerial(StepNextOf(Position), zipper)[1][2]
  /\ UNCHANGED << pc, tokens, tags, spec, selector, selected, scraped, result >>

SeekNext ==
  /\ pc = "combinators"
  /\ \E sc \in Scrapers :
       LET r == runSerial(attempt(SeekNextOf(sc)), zipper)
       IN /\ zipper' = r[1][2]
          /\ result' = Some([op |-> "seekNext", scraper |-> sc, value |-> r[1][1]])
  /\ pc' = "done"
  /\ UNCHANGED << tokens, tags, spec, selector, selected, scraped >>

SeekBack ==
  /\ pc = "combinators"
  /\ \E sc \in Scrapers :
       LET r == runSerial(attempt(SeekBackOf(sc)), zipper)
       IN /\ zipper' = r[1][2]
          /\ result' = Some([op |-> "seekBack", scraper |-> sc, value |-> r[1][1]])
  /\ pc' = "done"
  /\ UNCHANGED << tokens, tags, spec, selector, selected, scraped >>

\* The serial scrapers run inside an until context.
Inners ==
  { RepeatOf(StepNextOf(Attr("id", any))),
    RepeatOf(StepBackOf(Attr("id", any))),
    StepNextOf(Matches(text)) }

UntilNext ==
  /\ pc = "combinators"
  /\ \E until \in Scrapers, inner \in Inners :
       LET r == runSerial(attempt(UntilNextOf(until, inner)), zipper)
       IN /\ zipper' = r[1][2]
          /\ result' = Some([op |-> "untilNext", scraper |-> until,
                             inner |-> inner, value |-> r[1][1]])
  /\ pc' = "done"
  /\ UNCHANGED << tokens, tags, spec, selector, selected, scraped >>

UntilBack ==
  /\ pc = "combinators"
  /\ \E until \in Scrapers, inner \in Inners :
       LET r == runSerial(attempt(UntilBackOf(until, inner)), zipper)
       IN /\ zipper' = r[1][2]
          /\ result' = Some([op |-> "untilBack", scraper |-> until,
                             inner |-> inner, value |-> r[1][1]])
  /\ pc' = "done"
  /\ UNCHANGED << tokens, tags, spec, selector, selected, scraped >>

\* repeat and repeat1 of a step.
Repeat ==
  /\ pc = "combinators"
  /\ \E sc \in Scrapers, op \in { "repeat", "repeat1" }, dir \in { "stepNext", "stepBack" } :
       LET step == IF dir = "stepNext" THEN StepNextOf(sc) ELSE StepBackOf(sc)
           r == runSerial(attempt(IF op = "repeat" THEN RepeatOf(step) ELSE Repeat1Of(step)),
                          zipper)
       IN /\ zipper' = r[1][2]
          /\ result' = Some([op |-> op, scraper |-> sc, dir |-> dir, value |-> r[1][1]])
  /\ pc' = "done"
  /\ UNCHANGED << tokens, tags, spec, selector, selected, scraped >>

\* The first computations handed to alt: two steps in a row.
AltFirsts ==
  { SequenceOf(<< StepNextOf(sc1), StepNextOf(sc2) >>) : sc1, sc2 \in Scrapers }

\* pipe(fa, alt(() => that)) of SerialScraper.ts.
Alt ==
  /\ pc = "combinators"
  /\ \E fa \in AltFirsts, sc \in Scrapers :
       LET r == runSerial(attempt(AltOf(fa, StepNextOf(sc))), zipper)
       IN /\ zipper' = r[1][2]
          /\ result' = Some([op |-> "alt", fa |-> fa, that |-> StepNextOf(sc),
                             value |-> r[1][1]])
  /\ pc' = "done"
  /\ UNCHANGED << tokens, tags, spec, selector, selected, scraped >>

\* pipe(fa, alt(() => that)) of the earlier SerialScraper.
StateAlt ==
  /\ pc = "combinators"
  /\ \E fa \in AltFirsts, sc \in Scrapers :
       LET r == stateRunSerial(AltOf(fa, StepNextOf(sc)), zipper)
       IN /\ zipper' = r.state
          /\ result' = Some([op |-> "stateAlt", fa |-> fa, that |-> StepNextOf(sc),
                             value |-> r.value])
  /\ pc' = "done"
  /\ UNCHANGED << tokens, tags, spec, selector, selected, scraped >>

\* repeat of a step, of the earlier SerialScraper.
StateRepeat ==
  /\ pc = "combinators"
  /\ \E sc \in Scrapers, dir \in { "stepNext", "stepBack" } :
       LET step == IF dir = "stepNext" THEN StepNextOf(sc) ELSE StepBackOf(sc)
           r == stateRunSerial(RepeatOf(step), zipper)
       IN /\ zipper' = r.state
          /\ result' = Some([op |-> "stateRepeat", scraper |-> sc, dir |-> dir,
                             value |-> r.value])
  /\ pc' = "done"
  /\ UNCHANGED << tokens, tags, spec, selector, selected, scraped >>

NextCombinators ==
  Advance \/ SeekNext \/ SeekBack \/ UntilNext \/ UntilBack \/ Repeat
    \/ Alt \/ StateAlt \/ StateRepeat

SpecCombinators == InitCombinators /\ [][NextCombinators]_vars

(***************************************************************************)
(* The inSerial driver: a serial scraper is run by inSerial on the spec of *)
(* a document or, in a chroot, on a spec returned by select.               *)
(***************************************************************************)
InitInSerial ==
  /\ pc = "inSerial"
  /\ tokens \in UNION { Streams(n) : n \in 0..MaxInSerialLen }
  /\ tags = annotateTags(tokens)
  /\ spec = tagsToSpec(tokens)
  /\ selector = << >>
  /\ selected = << >>
  /\ scraped = None
  /\ zipper = << >>
  /\ result = None

\* chroots(selector): the specs inSerial is handed in a chroot.
ChrootSelect ==
  /\ pc = "inSerial"
  /\ \E sel \in { tag("a"), any } :
       /\ selector' = sel
       /\ selected' = select(sel, spec)
  /\ pc' = "inChroot"
  /\ UNCHANGED << tokens, tags, spec, scraped, zipper, result >>

\* n times the same step, in sequence.
replicate(n, step) == [i \in 1..n |-> step]

\* The serial scrapers handed to inSerial.
Serials ==
  { OfValue("void") }
    \cup { SequenceOf(replicate(k, StepNextOf(sc))) :
             k \in 1..(MaxInSerialLen + 1), sc \in { Attr("id", any), Matches(text) } }

InSerial ==
  /\ pc \in { "inSerial", "inChroot" }
  /\ \E sp \in (IF pc = "inSerial" THEN { spec } ELSE { selected[i] : i \in 1..Len(selected) }),
        serial \in Serials :
       /\ zipper' = IF sp.hierarchy = << >> THEN << >> ELSE inSerialZipper(sp)
       /\ result' = Some([op |-> "inSerial", spec |-> sp, serial |-> serial,
                          value |-> inSerial(serial, sp)])
  /\ pc' = "serialDone"
  /\ UNCHANGED << tokens, tags, spec, selector, selected, scraped >>

NextInSerial == ChrootSelect \/ InSerial

SpecInSerial == InitInSerial /\ [][NextInSerial]_vars

(***************************************************************************)
(* The scrape driver of the Scraper combinators: scrape(scraper) run on    *)
(* the tokens of a document.  The opening tags of b carry an href.         *)
(***************************************************************************)
MakeScrapeToken(k, i) ==
  IF k = << "TagOpen", "b" >>
  THEN TagOpen("b", << Attribute("id", i), Attribute("href", i) >>)
  ELSE MakeToken(k, i)

ScrapeStreams(n) ==
  { [i \in 1..n |-> MakeScrapeToken(ks[i], i - 1)] : ks \in [1..n -> Kinds] }

InitScrape ==
  /\ pc = "scrape"
  /\ tokens \in UNION { ScrapeStreams(n) : n \in 0..MaxScrapeLen }
  /\ tags = annotateTags(tokens)
  /\ spec = tagsToSpec(tokens)
  /\ selector = << >>
  /\ selected = << >>
  /\ scraped = None
  /\ zipper = << >>
  /\ result = None

ScrapeSelectors == { tag("a"), any }

\* The scrapers run inside a chroot.
InnerScrapers == { Attr("href", any), Matches(text) }

\* scrapeTagSpec(scraper)(spec)
scrapeWith(sc) ==
  /\ pc = "scrape"
  /\ result' = Some([op |-> "scrape", scraper |-> sc])
  /\ scraped' = runScraper(sc, spec)
  /\ pc' = "scraped"
  /\ UNCHANGED << tokens, tags, spec, selector, selected, zipper >>

ScrapeChroot ==
  \E sel \in ScrapeSelectors, inner \in InnerScrapers : scrapeWith(ChrootOf(sel, inner))

ScrapeChroots ==
  \E sel \in ScrapeSelectors, inner \in InnerScrapers :
    \/ scrapeWith(ChrootsOf(sel, inner))
    \/ scrapeWith(EffectChrootsOf(sel, inner))

ScrapeAttr ==
  \E sel \in ScrapeSelectors, key \in { "id", "href" } :
    \/ scrapeWith(Attr(key, sel))
    \/ scrapeWith(Attrs(key, sel))

ScrapeHtml ==
  \E sel \in ScrapeSelectors :
    \/ scrapeWith(Texts(sel))
    \/ scrapeWith(Html(sel))
    \/ scrapeWith(Htmls(sel))
    \/ scrapeWith(InnerHTML(sel))
    \/ scrapeWith(InnerHTMLs(sel))
    \/ scrapeWith(ReaderInnerHTML(sel))
    \/ scrapeWith(ReaderInnerHTMLs(sel))

\* pipe(html(any), chroots(selector))
ScrapeRoundTrip ==
  \E sel \in Selectors : scrapeWith(ChrootsOf(sel, Html(any)))

NextScrape ==
  ScrapeChroot \/ ScrapeChroots \/ ScrapeAttr \/ ScrapeHtml \/ ScrapeRoundTrip

SpecScrape == InitScrape /\ [][NextScrape]_vars

\* The scraper succeeds on the node at index j (0-based) of a zipper's list.
SucceedsAt(scraper, list, j) ==
  /\ isSome(list[j + 1])
  /\ isSome(runScraper(scraper, list[j + 1][1]))

\* C11: seekNext / seekBack run from focus index i succeed with the scraper's
\* result on the nearest node after / before i on which the scraper succeeds,
\* skipping the nodes on which it fails, and leave the focus on that node;
\* they fail when the scraper succeeds on no node in that direction.
C11_SeekFindsNearest ==
  [][ LET last == result'[1]
          list == Z_toArray(zipper)
          index == Len(zipper.lefts)
          ahead == IF last.op = "seekNext"
                   THEN { j \in (index + 1)..(Len(list) - 1) :
                            SucceedsAt(last.scraper, list, j) }
                   ELSE { j \in 0..(index - 1) : SucceedsAt(last.scraper, list, j) }
          nearest == CHOOSE j \in ahead :
                       \A k \in ahead : IF last.op = "seekNext" THEN j <= k ELSE k <= j
      IN IF ~(pc' = "done" /\ last.op \in { "seekNext", "seekBack" }) THEN TRUE
         ELSE IF ahead = {} THEN last.value = None
         ELSE /\ last.value = runScraper(last.scraper, list[nearest + 1][1])
              /\ Z_toArray(zipper') = list
              /\ Len(zipper'.lefts) = nearest ]_vars

\* The smallest and the largest element of a non-empty set of integers.
Least(S) == CHOOSE j \in S : \A k \in S : j <= k
Greatest(S) == CHOOSE j \in S : \A k \in S : k <= j

\* C12: untilNext(until)(inner) runs inner on a fresh zipper holding exactly
\* the nodes strictly after the current focus and strictly before the first
\* later node on which until succeeds (all the remaining nodes when it never
\* succeeds), in document order, padded with None at both ends and focused on
\* the leading None; over an empty range every read of inner fails.
C12_UntilNextRange ==
  [][ LET last == result'[1]
          list == Z_toArray(zipper)
          index == Len(zipper.lefts)
          limit == Len(list) - 1
          stops == { j \in (index + 1)..(limit - 1) : SucceedsAt(last.scraper, list, j) }
          stop == IF stops = {} THEN limit ELSE Least(stops)
          range == IF index >= limit THEN << >> ELSE SubSeq(list, index + 2, stop)
          fresh == Z_make(<< >>, None, range \o << None >>)
      IN (pc' = "done" /\ last.op = "untilNext") =>
           /\ applyAppend("insertLeft", None,
                          untilSplit("down", "insertLeft", last.scraper, zipper)) = fresh
           /\ last.value = SO_evaluate(last.inner, fresh)
           /\ range = << >> =>
                \A sc \in Scrapers :
                  /\ SO_evaluate(StepNextOf(sc), fresh) = None
                  /\ SO_evaluate(StepBackOf(sc), fresh) = None ]_vars

\* untilNext has read two nodes before a later node on which until succeeds.
C12_Witness ==
  /\ pc = "done"
  /\ isSome(result)
  /\ result[1].op = "untilNext"
  /\ result[1].inner = RepeatOf(StepNextOf(Attr("id", any)))
  /\ isSome(result[1].value)
  /\ Len(result[1].value[1]) = 2
  /\ Len(zipper.lefts) = 0
  /\ Len(zipper.rights) >= 4
  /\ SucceedsAt(result[1].scraper, Z_toArray(zipper), 3)

\* C13: after untilNext (untilBack) has succeeded with until matching a node,
\* the focus of the outer zipper is left at the match: a stepNext (stepBack)
\* that follows immediately reads the node on which until succeeded.
C13_UntilLeavesFocusAtMatch ==
  [][ LET last == result'[1]
          list == Z_toArray(zipper)
          index == Len(zipper.lefts)
          limit == Len(list) - 1
          stops == IF last.op = "untilNext"
                   THEN { j \in (index + 1)..(limit - 1) : SucceedsAt(last.scraper, list, j) }
                   ELSE { j \in 1..(index - 1) : SucceedsAt(last.scraper, list, j) }
          match == IF last.op = "untilNext" THEN Least(stops) ELSE Greatest(stops)
      IN (/\ pc' = "done"
          /\ last.op \in { "untilNext", "untilBack" }
          /\ isSome(last.value)
          /\ stops # {}) =>
           \A sc \in Scrapers :
             SO_evaluate(IF last.op = "untilNext" THEN StepNextOf(sc) ELSE StepBackOf(sc),
                         zipper')
               = runScraper(sc, list[match + 1][1]) ]_vars

\* C14: repeat(s) never fails: it returns, in order, the results of the
\* maximal run of consecutive successes of s (the empty list when the first
\* run of s fails) and leaves the zipper as the last success left it.
C14_RepeatMaximalRun ==
  [][ LET last == result'[1]
          list == Z_toArray(zipper)
          index == Len(zipper.lefts)
          d == IF last.dir = "stepNext" THEN 1 ELSE 0 - 1
          ok(j) == /\ 0 <= j
                   /\ j < Len(list)
                   /\ SucceedsAt(last.scraper, list, j)
          run == CHOOSE n \in 0..Len(list) :
                   /\ \A i \in 1..n : ok(index + d * i)
                   /\ ~ok(index + d * (n + 1))
      IN (pc' = "done" /\ last.op = "repeat") =>
           /\ last.value =
                Some([i \in 1..run |-> runScraper(last.scraper, list[index + d * i + 1][1])[1]])
           /\ Z_toArray(zipper') = list
           /\ Len(zipper'.lefts) = index + d * run ]_vars

\* repeat has collected two results and stopped on a failing node that is
\* not the end of the zipper.
C14_Witness ==
  /\ pc = "done"
  /\ isSome(result)
  /\ result[1].op = "repeat"
  /\ result[1].dir = "stepNext"
  /\ isSome(result[1].value)
  /\ Len(result[1].value[1]) = 2
  /\ Len(zipper.lefts) = 2
  /\ Len(zipper.rights) >= 2

\* The nodes inSerial visits on a spec: in a chroot the immediate children of
\* its root node, otherwise its top-level roots.
Visited(sp) ==
  IF sp.hierarchy = << >> THEN << >>
  ELSE IF sp.context.inChroot THEN sp.hierarchy[1].forest
  ELSE sp.hierarchy

\* The zipper over a list of nodes of a spec: a leading None under the focus,
\* one spec for each node with that node as its only root and the token
\* vector of the spec, and a trailing None.
ZipperOver(nodes, sp) ==
  Z_make(<< >>, None,
         [i \in 1..Len(nodes) |-> Some(TagSpec(sp.context, << nodes[i] >>, sp.tags))]
           \o << None >>)

\* C15: inSerial(s) runs s over the immediate children of the root node when
\* context.inChroot is true and over the top-level roots otherwise, and
\* returns None without running s when the hierarchy is empty.
C15_InSerialVisits ==
  (pc = "serialDone") =>
    LET last == result[1]
    IN last.value =
         IF last.spec.hierarchy = << >> THEN None
         ELSE SO_evaluate(last.serial, ZipperOver(Visited(last.spec), last.spec))

\* inSerial has read the two children of the root node of a chroot.
C15_Witness ==
  /\ pc = "serialDone"
  /\ result[1].spec.context.inChroot
  /\ Len(result[1].spec.hierarchy[1].forest) = 2
  /\ result[1].serial \in { SequenceOf(replicate(2, StepNextOf(sc))) : sc \in { Attr("id", any), Matches(text) } }
  /\ isSome(result[1].value)

\* C16: the zipper for the roots r1..rn is [None, Some(spec of r1), ...,
\* Some(spec of rn), None] with the focus on the leading None, each spec with
\* the hierarchy [ri] and the token vector of the source spec: the k-th of k
\* consecutive stepNext (k <= n) reads rk, and the (n+1)-th fails.
C16_ZipperOfRoots ==
  (pc = "serialDone" /\ result[1].spec.hierarchy # << >>) =>
    LET last == result[1]
        roots == Visited(last.spec)
        n == Len(roots)
        rootSpec(i) == TagSpec(last.spec.context, << roots[i] >>, last.spec.tags)
    IN /\ zipper.lefts = << >>
       /\ zipper.focus = None
       /\ zipper.rights = [i \in 1..n |-> Some(rootSpec(i))] \o << None >>
       /\ last.serial.serial = "sequence" =>
            LET d == Len(last.serial.serials)
                sc == last.serial.serials[1].scraper
            IN   /\ d > n => last.value = None
                 /\ (d <= n /\ \A k \in 1..d : isSome(runScraper(sc, rootSpec(k)))) =>
                      last.value = Some([k \in 1..d |-> runScraper(sc, rootSpec(k))[1]])
                 /\ (d <= n /\ \E k \in 1..d : ~isSome(runScraper(sc, rootSpec(k)))) =>
                      last.value = None

\* Three consecutive stepNext have read the three roots of a document.
C16_Witness ==
  /\ pc = "serialDone"
  /\ ~result[1].spec.context.inChroot
  /\ Len(result[1].spec.hierarchy) = 3
  /\ result[1].serial.serial = "sequence"
  /\ Len(result[1].serial.serials) = 3
  /\ isSome(result[1].value)

\* The scraper of the last scrape and the specs its selector selects.
Scraped == result[1].scraper
Regions == select(Scraped.selector, spec)

\* C17: chroot(selector, inner) runs inner on the first spec returned by
\* select and returns that result; it returns None when select returns no
\* spec.
C17_ChrootFirstSpec ==
  (pc = "scraped" /\ Scraped.scraper = "chroot") =>
    scraped = IF Regions = << >> THEN None
              ELSE runScraper(Scraped.inner, Regions[1])

\* The kinds of the scrapers that return a list.
ListKinds ==
  { "texts", "attrs", "htmls", "innerHTMLs", "readerInnerHTMLs", "chroots",
    "effectChroots" }

\* C18: the combinators that return a list (texts, attrs, htmls, innerHTMLs,
\* chroots) never return None: they return Some of the empty list when
\* nothing matches or when every inner result is None.
C18_ListsNeverNone ==
  (pc = "scraped" /\ Scraped.scraper \in ListKinds) =>
    /\ isSome(scraped)
    /\ Regions = << >> => scraped = Some(<< >>)
    /\ (/\ Scraped.scraper \in { "chroots", "effectChroots" }
        /\ \A i \in 1..Len(Regions) : runScraper(Scraped.inner, Regions[i]) = None)
         => scraped = Some(<< >>)

\* The value of the key on the first TagOpen of a region, if any.
FirstOpenAttr(key, region) ==
  LET opens == SelectSeq(region.tags, LAMBDA info : info.token.type = "TagOpen")
  IN IF opens = << >> THEN None ELSE getAttribute(key, opens[1].token.attributes)

\* C19: attrs(key, selector) yields at most one value for each selected
\* region, read from the first TagOpen of the region (the selected tag
\* itself): a region whose first TagOpen lacks the key contributes nothing,
\* even when a tag nested in it carries the key; attr returns the first of
\* these values.
C19_AttrOfSelectedTag ==
  (pc = "scraped" /\ Scraped.scraper \in { "attr", "attrs" }) =>
    LET values == RA_compact([i \in 1..Len(Regions) |->
                                FirstOpenAttr(Scraped.key, Regions[i])])
    IN scraped = IF Scraped.scraper = "attrs" THEN Some(values) ELSE RA_head(values)

\* The rendering of the tokens lo..hi (1-based) of a region.
RECURSIVE Rendering(_, _, _)
Rendering(region, lo, hi) ==
  IF lo > hi THEN << >>
  ELSE showToken(region.tags[lo].token) \o Rendering(region, lo + 1, hi)

\* The inner HTML of a region: everything but its first and its last token.
Inner(region) == Rendering(region, 2, Len(region.tags) - 1)

\* C20: for every selected region of at least two tokens the html is the
\* rendering of the first token, then the innerHTML, then the rendering of
\* the last token: innerHTML drops exactly the first and the last token, and
\* is the empty string for a region of fewer than two tokens.
C20_InnerHTMLDropsEnds ==
  (pc = "scraped") =>
    LET n == Len(Regions)
        last(i) == Len(Regions[i].tags)
        whole(i) == IF last(i) < 2 THEN Rendering(Regions[i], 1, last(i))
                    ELSE showToken(Regions[i].tags[1].token) \o Inner(Regions[i])
                           \o showToken(Regions[i].tags[last(i)].token)
    IN /\ Scraped.scraper \in { "innerHTMLs", "readerInnerHTMLs" } =>
            scraped = Some([i \in 1..n |-> Inner(Regions[i])])
       /\ Scraped.scraper \in { "innerHTML", "readerInnerHTML" } =>
            scraped = IF n = 0 THEN None ELSE Some(Inner(Regions[1]))
       /\ Scraped.scraper = "htmls" => scraped = Some([i \in 1..n |-> whole(i)])
       /\ Scraped.scraper = "html" => scraped = IF n = 0 THEN None ELSE Some(whole(1))

\* C21: for any selector s, chroots(s, html(any)) yields the same list as
\* htmls(s): selecting any inside each region emitted for s returns first
\* the root of the region, with the whole token slice of the region.
C21_ChrootRoundTrip ==
  (pc = "scraped" /\ Scraped.scraper = "chroots" /\ Scraped.inner = Html(any)) =>
    scraped = runScraper(Htmls(Scraped.selector), spec)

\* chroots(s, html(any)) has rendered two regions, the first of at least
\* three tokens.
C21_Witness ==
  /\ pc = "scraped"
  /\ Scraped.scraper = "chroots"
  /\ Scraped.inner = Html(any)
  /\ Len(scraped[1]) >= 2
  /\ Len(Regions[1].tags) >= 3

(***************************************************************************)
(* Shape of the forest built by fromTagInfo                                *)
(***************************************************************************)
\* A span completely encloses another: it opens before it and closes no
\* earlier than it.
Encloses(outer, inner) == outer.start < inner.start /\ inner.end <= outer.end

\* C22: the parent of a node n of the forest is the node with the smallest
\* span that encloses the span of n (every other enclosing span encloses the
\* parent too), and no span of the forest encloses the span of a root.
C22_ParentIsSmallestEnclosing ==
  LET all == { q.value : q \in Nodes(spec.hierarchy) }
  IN /\ \A p \in Nodes(spec.hierarchy) :
          \A i \in 1..Len(p.forest) :
            LET n == p.forest[i].value
            IN /\ Encloses(p.value, n)
               /\ \A q \in all :
                    Encloses(q, n) => (q = p.value \/ Encloses(q, p.value))
     /\ \A i \in 1..Len(spec.hierarchy) :
          \A q \in all : ~Encloses(q, spec.hierarchy[i].value)

\* The start indices of the nodes of the forest, in pre-order.
Starts == [i \in 1..Len(PreOrder(spec.hierarchy)) |-> PreOrder(spec.hierarchy)[i].value.start]

\* C28: every TagOpen and every Text index is the start of exactly one node
\* of the forest, and no Comment or TagClose index is the start of a node,
\* also when closing tags arrive out of order.
C28_OneNodePerOpening ==
  pc = "spec" =>
    \A i \in 0..(Len(tags) - 1) :
      LET n == Cardinality({ k \in 1..Len(Starts) : Starts[k] = i })
      IN IF tags[i + 1].token.type \in { "TagOpen", "Text" } THEN n = 1 ELSE n = 0

(***************************************************************************)
(* Pairing of closing tags with opening tags: the token stream annotated   *)
(* by either annotator                                                     *)
(***************************************************************************)
NextAnnotate == Tokenize \/ Annotate \/ AnnotateEffect

SpecAnnotate == Init /\ [][NextAnnotate]_vars

\* The openers a closing tag at index j may pair with: the TagOpen tokens of
\* its name before j that no closing tag before j was paired with.
Unpaired(j) ==
  { i \in 0..(j - 1) :
      /\ tags[i + 1].token.type = "TagOpen"
      /\ tags[i + 1].token.name = tags[j + 1].token.name
      /\ \/ tags[i + 1].closeOffset = None
         \/ i + tags[i + 1].closeOffset[1] >= j }

Max(S) == CHOOSE x \in S : \A y \in S : y <= x

\* C23: a TagClose at index j is paired with the most recently opened, still
\* unpaired TagOpen of its name before j, which carries closeOffset = j - i,
\* and with no other token; when no such opener exists no token is paired
\* with it and every other pairing stands.
C23_StackPairing ==
  \A j \in 0..(Len(tags) - 1) :
    tags[j + 1].token.type = "TagClose" =>
      \A i \in 0..(Len(tags) - 1) :
        (tags[i + 1].closeOffset = Some(j - i)) <=>
          (Unpaired(j) # {} /\ i = Max(Unpaired(j)))

(***************************************************************************)
(* Siblings lifted under a match                                           *)
(***************************************************************************)
\* C24: liftSiblings(fs, start, end), as selectNodes calls it for a node
\* (start, end) and the siblings fs listed after it, returns only trees whose
\* span lies strictly inside (start, end).
C24_LiftedStrictlyInside ==
  \A c \in Contexts(spec.hierarchy) :
    LET lifted == liftSiblings(<< >>, c[1].value.start, c[1].value.end, c[2])
    IN \A k \in 1..Len(lifted) : StrictlyInside(lifted[k].value, c[1].value)

(***************************************************************************)
(* Culling                                                                 *)
(***************************************************************************)
\* The result of nodeMatches for a selection at a node of the document, the
\* search having been handed the root forest rootForest.
MatchAt(selection, node, rootForest) ==
  nodeMatches(selection, spec.tags[node.value.start + 1],
              updateHierarchy(spec, << node >>),
              updateHierarchy(spec, rootForest))

\* The forests searched for the last selection, each with its root forest:
\* the whole spec for a single selection, the children and lifted siblings
\* of each match of the first selection for a nested pair.
Searches ==
  IF Len(selector) = 1
  THEN { << spec.hierarchy, spec.hierarchy >> }
  ELSE { << c[1].forest \o Tail(HandedDown(c[1], c[2])), HandedDown(c[1], c[2]) >> :
           c \in { x \in Contexts(spec.hierarchy) :
                     MatchAt(selector[1], x[1], spec.hierarchy) = MatchOk } }

\* C25: when a node yields MatchCull for the selection being searched,
\* neither the node nor any of its descendants yields MatchOk for it, so
\* skipping the subtree loses no match: the regions emitted for a single
\* selection are exactly the nodes of the forest that yield MatchOk, later
\* siblings of culled nodes included.
C25_CullLosesNoMatch ==
  pc = "selected" =>
    LET last == selector[Len(selector)]
    IN /\ \A sr \in Searches :
            \A f \in Nodes(sr[1]) :
              MatchAt(last, f, sr[2]) = MatchCull =>
                \A g \in Nodes(<< f >>) : MatchAt(last, g, sr[2]) # MatchOk
       /\ Len(selector) = 1 =>
            { OriginSpan(selected[i]) : i \in 1..Len(selected) } =
              { g.value : g \in { n \in Nodes(spec.hierarchy) :
                                    MatchAt(last, n, spec.hierarchy) = MatchOk } }

\* A search at a depth has emitted a region and culled a node that has a
\* descendant of the kind searched for.
C25_Witness ==
  /\ pc = "selected"
  /\ Len(selector) = 1
  /\ selected # << >>
  /\ \E f \in Nodes(spec.hierarchy) :
       /\ MatchAt(selector[1], f, spec.hierarchy) = MatchCull
       /\ \E g \in Nodes(f.forest) : StrategyMatches(selector[1], TokenAt(g.value))

(***************************************************************************)
(* The atDepth combinator applied to selectors                             *)
(***************************************************************************)
\* The selections a selector is built from.
Selections ==
  { Selection(st, SelectSettings(d)) :
      st \in { SelectOne("a", << >>), SelectAny(<< >>), SelectText },
      d \in { None } \cup { Some(k) : k \in 0..MaxDepth } }

InitAtDepth ==
  /\ pc = "selector"
  /\ tokens = << >>
  /\ tags = << >>
  /\ spec = NoSpec
  /\ selector = << >>
  /\ selected = << >>
  /\ scraped = None
  /\ zipper = << >>
  /\ result = None

\* pipe(selector, nested(selection)): one more selection.
Nest ==
  /\ pc = "selector"
  /\ Len(selector) < MaxSelectorLen
  /\ \E n \in Selections : selector' = nested(<< n >>, selector)
  /\ UNCHANGED << pc, tokens, tags, spec, selected, scraped, zipper, result >>

\* pipe(selector, atDepth(depth)) of Select.ts.
AtDepth ==
  /\ pc = "selector"
  /\ \E depth \in 0..(MaxDepth + 1) :
       result' = Some([op |-> "atDepth", depth |-> depth,
                       value |-> atDepth(depth, selector)])
  /\ pc' = "atDepth"
  /\ UNCHANGED << tokens, tags, spec, selector, selected, scraped, zipper >>

\* atDepth(selector, depth) of Internal/tagInfo.ts.
EffectAtDepth ==
  /\ pc = "selector"
  /\ \E depth \in 0..(MaxDepth + 1) :
       result' = Some([op |-> "effectAtDepth", depth |-> depth,
                       value |-> effectAtDepth(depth, selector)])
  /\ pc' = "atDepth"
  /\ UNCHANGED << tokens, tags, spec, selector, selected, scraped, zipper >>

NextAtDepth == Nest \/ AtDepth \/ EffectAtDepth

SpecAtDepth == InitAtDepth /\ [][NextAtDepth]_vars

\* C26: atDepth(sel, d) has the selections of sel in the same order, the
\* depth of the last one replaced by Some(d) and every other selection as it
\* was; the empty selector stays empty.
C26_AtDepthReplacesLastDepth ==
  pc = "atDepth" =>
    LET out == result[1].value
    IN /\ Len(out) = Len(selector)
       /\ \A i \in 1..Len(selector) :
            /\ out[i].strategy = selector[i].strategy
            /\ out[i].settings =
                 IF i = Len(selector) THEN SelectSettings(Some(result[1].depth))
                 ELSE selector[i].settings

(***************************************************************************)
(* Alternatives of serial scrapers                                         *)
(***************************************************************************)
\* What one serial scraper yields on a zipper: its value and final zipper,
\* or no value with the zipper as given.
Outcome(op, serial, z) ==
  IF op = "alt"
  THEN stateStep(runSerial(serial, z), z)
  ELSE LET r == stateRunSerial(serial, z)
       IN IF r.value = None THEN StateResult(None, z) ELSE r

\* C27: alt(a, b) on a zipper z yields the value and final zipper of a when
\* a succeeds; when a fails, also after an earlier step of a has moved the
\* focus, it yields what b yields on z as it was before a started.
C27_AltRestartsFromOriginal ==
  [][(pc' = "done" /\ result'[1].op \in { "alt", "stateAlt" }) =>
       LET last == result'[1]
           a == Outcome(last.op, last.fa, zipper)
           b == Outcome(last.op, last.that, zipper)
       IN StateResult(last.value, zipper') = (IF a.value # None THEN a ELSE b)]_vars

(***************************************************************************)
(* The pointed array of Internal/zipper.ts                                 *)
(***************************************************************************)
\* make(lefts, focus, rights); the lefts are kept in the order of the array.
PA_make(lefts, focus, rights) ==
  [lefts |-> lefts, focus |-> focus, rights |-> rights]

PA_length(self) == Len(self.lefts) + 1 + Len(self.rights)

PA_isOutOfBound(self, index) == index < 0 \/ index >= PA_length(self)

PA_toNonEmptyReadonlyArray(self) == self.lefts \o << self.focus >> \o self.rights

\* elements[focusIndex] of an index past the end is undefined.
PA_fromReadonlyArray(elements, focusIndex) ==
  IF elements = << >> \/ Len(elements) >= focusIndex THEN None
  ELSE Some(PA_make(SubSeq(elements, 1, focusIndex), "undefined", << >>))

\* move(self, f) with f = (n) => n + delta; moveFocusDown is delta = -1 and
\* moveFocusUp is delta = 1.
PA_move(self, delta) ==
  LET newIndex == Len(self.lefts) + delta
  IN IF PA_isOutOfBound(self, newIndex) THEN None
     ELSE PA_fromReadonlyArray(PA_toNonEmptyReadonlyArray(self), newIndex)

\* The pointed arrays of at most MaxZipperLen elements.
PointedArrays ==
  { PA_make(SubSeq(xs, 1, i - 1), xs[i], SubSeq(xs, i + 1, Len(xs))) :
      <<xs, i>> \in { p \in (UNION { [1..n -> 0..1] : n \in 1..MaxZipperLen })
                             \X (1..MaxZipperLen) : p[2] <= Len(p[1]) } }

InitZipper ==
  /\ pc = "zipper"
  /\ tokens = << >>
  /\ tags = << >>
  /\ spec = NoSpec
  /\ selector = << >>
  /\ selected = << >>
  /\ scraped = None
  /\ zipper \in PointedArrays
  /\ result = None

\* move(zipper, (n) => n + delta)
Move ==
  /\ pc = "zipper"
  /\ \E delta \in (-MaxMove)..MaxMove :
       result' = Some([op |-> "move", delta |-> delta, value |-> PA_move(zipper, delta)])
  /\ pc' = "moved"
  /\ UNCHANGED << tokens, tags, spec, selector, selected, scraped, zipper >>

NextZipper == Move

SpecZipper == InitZipper /\ [][NextZipper]_vars

\* C30: move(self, f) is Some(z) with the elements of self in the same order
\* and the focus at index f(i) whenever 0 <= f(i) < length(self), and None
\* otherwise.
C30_MoveWithinBounds ==
  pc = "moved" =>
    LET all == PA_toNonEmptyReadonlyArray(zipper)
        target == Len(zipper.lefts) + result[1].delta
    IN IF 0 <= target /\ target < Len(all)
       THEN result[1].value =
              Some(PA_make(SubSeq(all, 1, target), all[target + 1],
                           SubSeq(all, target + 2, Len(all))))
       ELSE result[1].value = None

(***************************************************************************)
(* Termination of repeat                                                   *)
(***************************************************************************)
\* The nodes of a zipper that lie after (stepNext) or before (stepBack) its
\* focus; the None at either end is not a node.
Remaining(z, dir) ==
  LET list == Z_toArray(z)
      index == Len(z.lefts)
  IN { j \in 0..(Len(list) - 1) :
         /\ list[j + 1] # None
         /\ IF dir = "stepNext" THEN j > index ELSE j < index }

\* The executions of the step behind a result of repeat or repeat1: one for
\* each collected value and the failing one that ended the run.
Executions(value) == IF value = None THEN 1 ELSE Len(value[1]) + 1

====
